---- MODULE Spec2Model ----
(***************************************************************************)
(* Tool-calling orchestration of mcp-streamlit-app:                        *)
(*   - CustomMCPClient.call_tool (argument coercion, in-process execution) *)
(*   - MCPClient.process_query / CustomMCPClient.process_query and the     *)
(*     process_query_async wrapper of mcp-client/streamlit_app.py          *)
(* Python values are records [t, n, s]: t is the Python type, n an integer *)
(* payload (floats are counted in tenths), s a string payload written as a *)
(* tuple of one-character strings.                                         *)
(***************************************************************************)
EXTENDS Integers, Sequences, FiniteSets, TLC

VARIABLES
    \* ---- one call of CustomMCPClient.call_tool
    cpc,        \* "ready" | "returned"
    ctools,     \* self.available_tools of the called client
    cpath,      \* self.server_script_path
    cname,      \* tool_name
    cargs,      \* tool_args
    cenv,       \* what the tool source does when executed and called
    cout,       \* what call_tool did: its SimpleResponse and its side effects
    \* ---- one query after another, each handled by one of the orchestrators
    first,      \* what the model API answers to the first request of a query
    follow,     \* what it answers to every later request of the query
    variant,    \* "mcp": MCPClient.process_query, "custom":
                \* CustomMCPClient.process_query (both under process_query_async
                \* of client_st.py), "wrapper": process_query_async of
                \* mcp-client/streamlit_app.py; "none" before the first query
    pc,         \* where the handler stands
    cause,      \* what made process_query raise, "none" if it did not
    idx,        \* position of the loop over response.content
    messages,   \* the message history being built
    final_text, \* the transcript lines
    tool_uses,  \* the tool invocations recorded so far, with their results
    inflight,   \* the requests issued and not yet answered
    reqs,       \* the model requests issued by this query, in order
    calls,      \* the backend tool calls issued by this query, in order
    prev,       \* what the previous query did, for comparison
    \* the client objects and the session state of the application
    clients,    \* the client objects constructed so far
    st,         \* st.session_state: client, connected, chat_history, available_tools
    lastop,     \* the last method call or handler run and what it started from
    nops        \* how many method calls or handler runs there were

callVars == <<cpc, ctools, cpath, cname, cargs, cenv, cout>>
queryVars == <<first, follow, variant, pc, cause, idx, messages, final_text,
               tool_uses, inflight, reqs, calls, prev>>
appVars == <<clients, st, lastop, nops>>
vars == <<cpc, ctools, cpath, cname, cargs, cenv, cout,
          first, follow, variant, pc, cause, idx, messages, final_text,
          tool_uses, inflight, reqs, calls, prev, clients, st, lastop, nops>>

-----------------------------------------------------------------------------
(* Python values                                                           *)

Val(t, n, s) == [t |-> t, n |-> n, s |-> s]
PyStr(s) == Val("str", 0, s)
PyInt(n) == Val("int", n, <<>>)
PyBool(b) == Val("bool", IF b THEN 1 ELSE 0, <<>>)
PyFloat(tenths) == Val("float", tenths, <<>>)
PyInf == Val("float", 0, <<"i", "n", "f">>)
PyNan == Val("float", 0, <<"n", "a", "n">>)
PyNone == Val("none", 0, <<>>)
PyList(k) == Val("list", k, <<>>)

\* isinstance(v, int): bool is a subclass of int
IsInstanceInt(v) == v.t \in {"int", "bool"}
\* isinstance(v, (int, float))
IsInstanceIntFloat(v) == v.t \in {"int", "bool", "float"}
IsInstanceBool(v) == v.t = "bool"
IsInstanceStr(v) == v.t = "str"

\* `sub in s` on strings
Contains(sub, s) ==
    \E i \in 1..(Len(s) - Len(sub) + 1) : SubSeq(s, i, i + Len(sub) - 1) = sub

UpperLetters ==
    <<"A", "B", "C", "D", "E", "F", "G", "H", "I", "J", "K", "L", "M",
      "N", "O", "P", "Q", "R", "S", "T", "U", "V", "W", "X", "Y", "Z">>
LowerLetters ==
    <<"a", "b", "c", "d", "e", "f", "g", "h", "i", "j", "k", "l", "m",
      "n", "o", "p", "q", "r", "s", "t", "u", "v", "w", "x", "y", "z">>

LowerChar(c) ==
    IF \E i \in DOMAIN UpperLetters : UpperLetters[i] = c
    THEN LowerLetters[CHOOSE i \in DOMAIN UpperLetters : UpperLetters[i] = c]
    ELSE c

\* str.lower()
Lower(s) == [i \in DOMAIN s |-> LowerChar(s[i])]

Digits == <<"0", "1", "2", "3", "4", "5", "6", "7", "8", "9">>
IsDigit(c) == \E i \in DOMAIN Digits : Digits[i] = c
DigitVal(c) == (CHOOSE i \in DOMAIN Digits : Digits[i] = c) - 1

RECURSIVE DigitsToNat(_)
DigitsToNat(ds) ==
    IF ds = <<>> THEN 0
    ELSE 10 * DigitsToNat(SubSeq(ds, 1, Len(ds) - 1)) + DigitVal(ds[Len(ds)])

RECURSIVE NatToDigits(_)
NatToDigits(n) ==
    IF n < 10 THEN <<Digits[n + 1]>>
    ELSE NatToDigits(n \div 10) \o <<Digits[(n % 10) + 1]>>

Abs(n) == IF n < 0 THEN -n ELSE n

\* str.strip() as float() applies it to its argument
RECURSIVE Strip(_)
Strip(s) ==
    IF s # <<>> /\ s[1] = " " THEN Strip(Tail(s))
    ELSE IF s # <<>> /\ s[Len(s)] = " " THEN Strip(SubSeq(s, 1, Len(s) - 1))
    ELSE s

AllDigits(s) == \A i \in DOMAIN s : IsDigit(s[i])

\* Result of a conversion: exc = "none" and the value, or the exception raised
Ok(v) == [exc |-> "none", v |-> v]
Raise(e) == [exc |-> e, v |-> PyNone]

\* float(<str>): sign, digits, optional fraction; inf / infinity / nan.
\* The model keeps one fractional digit (tenths); exponents are not modelled
\* and no string of the pools below uses them.
ParseFloat(s0) ==
    LET s == Strip(s0)
        neg == s # <<>> /\ s[1] = "-"
        signed == s # <<>> /\ s[1] \in {"-", "+"}
        body == Lower(IF signed THEN Tail(s) ELSE s)
        dots == {i \in DOMAIN body : body[i] = "."}
        ip == IF dots = {} THEN body
              ELSE SubSeq(body, 1, (CHOOSE i \in dots : TRUE) - 1)
        fp == IF dots = {} THEN <<>>
              ELSE SubSeq(body, (CHOOSE i \in dots : TRUE) + 1, Len(body))
        mag == 10 * DigitsToNat(ip) + (IF fp = <<>> THEN 0 ELSE DigitVal(fp[1]))
    IN  IF body \in {<<"i", "n", "f">>, <<"i", "n", "f", "i", "n", "i", "t", "y">>}
        THEN Ok(PyInf)
        ELSE IF body = <<"n", "a", "n">> THEN Ok(PyNan)
        ELSE IF /\ Cardinality(dots) <= 1
                /\ AllDigits(ip) /\ AllDigits(fp)
                /\ Len(ip) + Len(fp) >= 1
        THEN Ok(PyFloat(IF neg THEN -mag ELSE mag))
        ELSE Raise("ValueError")

\* float(v)
ToFloat(v) ==
    CASE v.t = "str" -> ParseFloat(v.s)
      [] v.t = "float" -> Ok(v)
      [] v.t \in {"int", "bool"} -> Ok(PyFloat(10 * v.n))
      [] OTHER -> Raise("TypeError")

\* int(<float>): truncation toward zero; inf and nan cannot be converted
FloatToInt(f) ==
    IF f.s = <<"i", "n", "f">> THEN Raise("OverflowError")
    ELSE IF f.s = <<"n", "a", "n">> THEN Raise("ValueError")
    ELSE Ok(PyInt(IF f.n < 0 THEN -((-f.n) \div 10) ELSE f.n \div 10))

\* int(float(v))
IntOfFloat(v) ==
    LET f == ToFloat(v) IN IF f.exc # "none" THEN f ELSE FloatToInt(f.v)

\* bool(v) for the values that are neither bool nor str
Truthy(v) ==
    CASE v.t = "none" -> FALSE
      [] v.t = "list" -> v.n > 0
      [] v.t = "float" -> v.n # 0 \/ v.s # <<>>
      [] OTHER -> v.n # 0

\* str(v)
ToStr(v) ==
    CASE v.t = "str" -> v.s
      [] v.t = "int" ->
            (IF v.n < 0 THEN <<"-">> ELSE <<>>) \o NatToDigits(Abs(v.n))
      [] v.t = "bool" ->
            IF v.n = 1 THEN <<"T", "r", "u", "e">> ELSE <<"F", "a", "l", "s", "e">>
      [] v.t = "float" ->
            IF v.s # <<>> THEN v.s
            ELSE (IF v.n < 0 THEN <<"-">> ELSE <<>>)
                 \o NatToDigits(Abs(v.n) \div 10) \o <<".">>
                 \o NatToDigits(Abs(v.n) % 10)
      [] v.t = "none" -> <<"N", "o", "n", "e">>
      [] OTHER -> IF v.n = 0 THEN <<"[", "]">> ELSE <<"[", "1", "]">>

\* the strings call_tool takes for true
TrueStrings ==
    {<<"t", "r", "u", "e">>, <<"y", "e", "s">>, <<"1">>, <<"y">>}

\* mutant: the string is compared without lower()
CoerceBoolCaseSensitive(v) ==
    IF ~IsInstanceBool(v)
    THEN IF IsInstanceStr(v)
         THEN Ok(PyBool(v.s \in TrueStrings))
         ELSE Ok(PyBool(Truthy(v)))
    ELSE Ok(v)

\* the boolean branch of the conversion
CoerceBool(v) ==
    IF ~IsInstanceBool(v)
    THEN IF IsInstanceStr(v)
         THEN Ok(PyBool(Lower(v.s) \in TrueStrings))
         ELSE Ok(PyBool(Truthy(v)))
    ELSE Ok(v)

\* the float branch
CoerceFloat(v) == IF ~IsInstanceIntFloat(v) THEN ToFloat(v) ELSE Ok(v)

\* mutant: every value is parsed, an integer is not passed through
CoerceIntStrOnly(v) == IF IsInstanceStr(v) THEN IntOfFloat(v) ELSE Raise("TypeError")

\* the integer branch
CoerceInt(v) == IF ~IsInstanceInt(v) THEN IntOfFloat(v) ELSE Ok(v)

\* a variant that tests int before float
TypeTagIntFirst(param_type) ==
    IF Contains(<<"i", "n", "t">>, param_type) THEN "integer"
    ELSE IF Contains(<<"f", "l", "o", "a", "t">>, param_type) THEN "float"
    ELSE IF Contains(<<"b", "o", "o", "l">>, param_type) THEN "boolean"
    ELSE "string"

\* the schema type list_tools gives a parameter
ListSchemaType(param_type) ==
    IF Contains(<<"f", "l", "o", "a", "t">>, param_type) THEN "number"
    ELSE IF Contains(<<"i", "n", "t">>, param_type) THEN "integer"
    ELSE IF Contains(<<"b", "o", "o", "l">>, param_type) THEN "boolean"
    ELSE "string"

\* the schema type process_query gives a parameter
QuerySchemaType(param_type) ==
    IF Contains(<<"f", "l", "o", "a", "t">>, param_type) THEN "number"
    ELSE IF Contains(<<"i", "n", "t">>, param_type) THEN "integer"
    ELSE IF Contains(<<"b", "o", "o", "l">>, param_type) THEN "boolean"
    ELSE "string"

\* the branch of the conversion call_tool takes for an annotation
TypeTag(param_type) ==
    IF Contains(<<"f", "l", "o", "a", "t">>, param_type) THEN "float"
    ELSE IF Contains(<<"i", "n", "t">>, param_type) THEN "integer"
    ELSE IF Contains(<<"b", "o", "o", "l">>, param_type) THEN "boolean"
    ELSE "string"

\* mutant: the string branch uses repr(), which quotes a string
CoerceRepr(param_type, v) ==
    CASE TypeTag(param_type) = "float" -> CoerceFloat(v)
      [] TypeTag(param_type) = "integer" -> CoerceInt(v)
      [] TypeTag(param_type) = "boolean" -> CoerceBool(v)
      [] OTHER -> Ok(PyStr(IF v.t = "str" THEN <<"'">> \o v.s \o <<"'">>
                                           ELSE ToStr(v)))

\* the conversion of one present parameter
Coerce(param_type, v) ==
    CASE TypeTag(param_type) = "float" -> CoerceFloat(v)
      [] TypeTag(param_type) = "integer" -> CoerceInt(v)
      [] TypeTag(param_type) = "boolean" -> CoerceBool(v)
      [] OTHER -> Ok(PyStr(ToStr(v)))

-----------------------------------------------------------------------------
(* CustomMCPClient.call_tool                                               *)

EmptyMap == [k \in {} |-> PyNone]

\* tool_args as the model hands them over: a mapping, or a text to be parsed
ArgMap(m) == [form |-> "map", m |-> m, txt |-> ""]
ArgText(txt) == [form |-> "text", m |-> EmptyMap, txt |-> txt]
ArgList == [form |-> "list", m |-> EmptyMap, txt |-> ""]
ArgScalar == [form |-> "scalar", m |-> EmptyMap, txt |-> ""]

One == <<"1">>
Two == <<"2">>

\* json.loads on the texts of the pool; any other text is not well formed
JsonLoads(txt) ==
    CASE txt = "{\"a\": \"1\", \"b\": \"2\"}" ->
            [exc |-> "none", v |-> ArgMap([k \in {"a", "b"} |->
                                    IF k = "a" THEN PyStr(One) ELSE PyStr(Two)])]
      [] txt = "{\"a\": 1}" ->
            [exc |-> "none", v |-> ArgMap([k \in {"a"} |-> PyInt(1)])]
      [] txt = "{}" -> [exc |-> "none", v |-> ArgMap(EmptyMap)]
      [] txt = "[]" -> [exc |-> "none", v |-> ArgList]
      [] txt = "3" -> [exc |-> "none", v |-> ArgScalar]
      [] OTHER -> [exc |-> "JSONDecodeError", v |-> ArgText(txt)]

\* the content a SimpleResponse carries
Content(kind, name, param, names, text, value) ==
    [kind |-> kind, name |-> name, param |-> param, names |-> names,
     text |-> text, value |-> value]

ErrNotFound(tool_name) == Content("notfound", tool_name, "", <<>>, "", PyNone)
ErrParse(text) == Content("parse", "", "", <<>>, text, PyNone)
ErrCoercion(param_name) == Content("coercion", "", param_name, <<>>, "", PyNone)
ErrArgProc == Content("argproc", "", "", <<>>, "", PyNone)
ErrMissing(names) == Content("missing", "", "", names, "", PyNone)
ErrUnsupported == Content("unsupported", "", "", <<>>, "", PyNone)
ErrImport == Content("import", "", "", <<>>, "", PyNone)
ErrNoFunc(tool_name) == Content("nofunc", tool_name, "", <<>>, "", PyNone)
ErrExec == Content("exec", "", "", <<>>, "", PyNone)
Result(value) == Content("ok", "", "", <<>>, "", value)

\* what one call did: its response, whether the source was executed, whether
\* the function was called and with which keyword arguments
Outcome(resp, loaded, invoked, kwargs) ==
    [resp |-> resp, loaded |-> loaded, invoked |-> invoked, kwargs |-> kwargs]

\* the first catalog entry of that name (0: none)
FindTool(available_tools, tool_name) ==
    IF \E i \in DOMAIN available_tools : available_tools[i].name = tool_name
    THEN CHOOSE i \in DOMAIN available_tools :
            /\ available_tools[i].name = tool_name
            /\ \A j \in 1..(i - 1) : available_tools[j].name # tool_name
    ELSE 0

\* the loop over the declared parameters: the parameters absent from the
\* input are skipped, the first failing conversion ends the call
RECURSIVE CoerceLoop(_, _, _, _)
CoerceLoop(params, i, tool_args, processed_args) ==
    IF i > Len(params) THEN [err |-> Result(PyNone), args |-> processed_args]
    ELSE IF tool_args.form = "scalar"
    THEN [err |-> ErrArgProc, args |-> processed_args]
    ELSE IF tool_args.form = "list" \/ params[i].name \notin DOMAIN tool_args.m
    THEN CoerceLoop(params, i + 1, tool_args, processed_args)
    ELSE LET r == Coerce(params[i].type, tool_args.m[params[i].name])
         IN  IF r.exc \in {"ValueError", "TypeError"}
             THEN [err |-> ErrCoercion(params[i].name), args |-> processed_args]
             ELSE IF r.exc # "none"
             THEN [err |-> ErrArgProc, args |-> processed_args]
             ELSE CoerceLoop(params, i + 1, tool_args,
                             (params[i].name :> r.v) @@ processed_args)

\* mutant: the check stops at the first parameter that was not converted
MissingArgsFirstOnly(params, processed_args) ==
    LET absent(p) == p.name \notin DOMAIN processed_args
        sel == SelectSeq(params, absent)
    IN  IF sel = <<>> THEN <<>> ELSE <<sel[1].name>>

\* the declared parameters that were not converted, in declaration order
MissingArgs(params, processed_args) ==
    LET absent(p) == p.name \notin DOMAIN processed_args
        sel == SelectSeq(params, absent)
    IN  [i \in DOMAIN sel |-> sel[i].name]

\* str.endswith on a path, held as its segments with the extension last
EndsWith(path, ext) == path # <<>> /\ path[Len(path)] = ext

\* a variant that lets the exception of the function go to the caller
ExecutePropagates(script_path, tool_name, processed_args, env) ==
    IF ~EndsWith(script_path, ".py")
    THEN Outcome(ErrUnsupported, FALSE, FALSE, EmptyMap)
    ELSE IF env.load = "ImportError" THEN Outcome(ErrImport, TRUE, FALSE, EmptyMap)
    ELSE IF env.load # "ok" THEN Outcome(ErrExec, TRUE, FALSE, EmptyMap)
    ELSE IF ~env.hasattr THEN Outcome(ErrNoFunc(tool_name), TRUE, FALSE, EmptyMap)
    ELSE IF env.run # "ok"
    THEN Outcome(Content("raised", "", "", <<>>, "", PyNone), TRUE, TRUE, processed_args)
    ELSE Outcome(Result(env.ret), TRUE, TRUE, processed_args)

\* the import and the invocation, once the arguments are complete
Execute(script_path, tool_name, processed_args, env) ==
    IF ~EndsWith(script_path, ".py")
    THEN Outcome(ErrUnsupported, FALSE, FALSE, EmptyMap)
    ELSE IF env.load = "ImportError" THEN Outcome(ErrImport, TRUE, FALSE, EmptyMap)
    ELSE IF env.load # "ok" THEN Outcome(ErrExec, TRUE, FALSE, EmptyMap)
    ELSE IF ~env.hasattr THEN Outcome(ErrNoFunc(tool_name), TRUE, FALSE, EmptyMap)
    ELSE IF env.run # "ok" THEN Outcome(ErrExec, TRUE, TRUE, processed_args)
    ELSE Outcome(Result(env.ret), TRUE, TRUE, processed_args)

\* the check of the required parameters, then the execution
CheckMissing(tool_info, script_path, tool_name, processed_args, missing_args, env) ==
    IF missing_args # <<>>
    THEN Outcome(ErrMissing(missing_args), FALSE, FALSE, EmptyMap)
    ELSE Execute(script_path, tool_name, processed_args, env)

\* the outcome of the conversion loop: its error, or the next step
AfterLoop(tool_info, script_path, tool_name, loop, env) ==
    IF loop.err.kind # "ok"
    THEN Outcome(loop.err, FALSE, FALSE, EmptyMap)
    ELSE CheckMissing(tool_info, script_path, tool_name, loop.args,
                      MissingArgs(tool_info.params, loop.args), env)

\* a variant that goes on with no arguments when the text does not parse
AfterParseEmptyOnError(tool_info, script_path, tool_name, text, parsed, env) ==
    AfterLoop(tool_info, script_path, tool_name,
              CoerceLoop(tool_info.params, 1,
                         IF parsed.exc # "none" THEN ArgMap(EmptyMap) ELSE parsed.v,
                         EmptyMap), env)

\* the text arguments once parsed
AfterParse(tool_info, script_path, tool_name, text, parsed, env) ==
    IF parsed.exc # "none"
    THEN Outcome(ErrParse(text), FALSE, FALSE, EmptyMap)
    ELSE AfterLoop(tool_info, script_path, tool_name,
                   CoerceLoop(tool_info.params, 1, parsed.v, EmptyMap), env)

\* the call once the descriptor is found
CallFound(tool_info, script_path, tool_name, tool_args, env) ==
    IF tool_args.form = "text"
    THEN AfterParse(tool_info, script_path, tool_name, tool_args.txt,
                    JsonLoads(tool_args.txt), env)
    ELSE AfterLoop(tool_info, script_path, tool_name,
                   CoerceLoop(tool_info.params, 1, tool_args, EmptyMap), env)

\* a variant that looks the name up in the tool source when the catalog
\* does not hold it
LookedUpInSource(available_tools, script_path, tool_name, tool_args, at, env) ==
    IF at = 0
    THEN Execute(script_path, tool_name, EmptyMap, env)
    ELSE CallFound(available_tools[at], script_path, tool_name, tool_args, env)

\* the descriptor at a catalog position, none at position 0
LookedUp(available_tools, script_path, tool_name, tool_args, at, env) ==
    IF at = 0
    THEN Outcome(ErrNotFound(tool_name), FALSE, FALSE, EmptyMap)
    ELSE CallFound(available_tools[at], script_path, tool_name, tool_args, env)

\* call_tool(tool_name, tool_args) of a client with this catalog and source;
\* env is what the tool source does when it is executed and called
call_tool(available_tools, server_script_path, tool_name, tool_args, env) ==
    LookedUp(available_tools, server_script_path, tool_name, tool_args,
             FindTool(available_tools, tool_name), env)

-----------------------------------------------------------------------------
(* The inputs of the calls                                                 *)

AnnFloat == <<"f", "l", "o", "a", "t">>
AnnInt == <<"i", "n", "t">>
AnnBool == <<"b", "o", "o", "l">>
AnnStr == <<"s", "t", "r">>
AnnFloatInt == <<"f", "l", "o", "a", "t", "|", "i", "n", "t">>
AnnIntBool == <<"i", "n", "t", "|", "b", "o", "o", "l">>
AnnPool == {AnnFloat, AnnInt, AnnBool, AnnStr, AnnFloatInt, AnnIntBool}

Param(name, type) == [name |-> name, type |-> type]
Tool(name, params) ==
    [name |-> name, description |-> "d", params |-> params, return_type |-> "str"]

\* the parameter lists of the descriptors: none, one or two of a and b, in
\* either declaration order
ParamLists ==
    {<<>>}
    \cup {<<Param(n, t)>> : n \in {"a", "b"}, t \in AnnPool}
    \cup {<<Param("a", t), Param("b", u)>> : t \in AnnPool, u \in AnnPool}
    \cup {<<Param("b", t), Param("a", u)>> : t \in AnnPool, u \in AnnPool}

StrPool ==
    {<<"t", "r", "u", "e">>, <<"Y", "e", "s">>, <<"1">>, <<"y">>, <<"Y">>,
     <<"T", "R", "U", "E">>, <<"f", "a", "l", "s", "e">>, <<"n", "o">>,
     <<"0">>, <<>>, <<"2", ".", "5">>, <<"-", "2", ".", "5">>,
     <<"a", "b", "c">>, <<"i", "n", "f">>, <<" ", "y">>}

ValPool ==
    {PyStr(s) : s \in StrPool}
    \cup {PyInt(0), PyInt(1), PyInt(2), PyInt(-3)}
    \cup {PyFloat(25), PyFloat(-25), PyInf}
    \cup {PyBool(TRUE), PyBool(FALSE)}
    \cup {PyNone, PyList(0), PyList(1)}

\* the mappings over the keys a and b
ArgMaps ==
    {EmptyMap}
    \cup {[k \in {n} |-> v] : n \in {"a", "b"}, v \in ValPool}
    \cup {[k \in {"a", "b"} |-> IF k = "a" THEN v ELSE w] :
            v \in ValPool, w \in ValPool}

TextPool ==
    {"{\"a\": \"1\", \"b\": \"2\"}", "{\"a\": 1}", "{}", "[]", "3", "{a: 1", ""}

ArgPool == {ArgMap(m) : m \in ArgMaps} \cup {ArgText(t) : t \in TextPool}

PathPool == {<<"weather", ".py">>, <<"server", ".js">>}

Env(load, hasattr, run) ==
    [load |-> load, hasattr |-> hasattr, run |-> run,
     ret |-> PyStr(<<"r">>)]

\* what executing the source and calling the function can do
Envs ==
    {Env("ok", TRUE, "ok"), Env("ok", TRUE, "raise"), Env("ok", FALSE, "ok"),
     Env("ImportError", TRUE, "ok"), Env("Exception", TRUE, "ok")}

NoOutcome == Outcome(Content("none", "", "", <<>>, "", PyNone), FALSE, FALSE, EmptyMap)

-----------------------------------------------------------------------------
(* The conversation: messages, content blocks, transcript lines            *)

NoContent == Content("none", "", "", <<>>, "", PyNone)

TextBlock(text) ==
    [type |-> "text", text |-> text, id |-> "", name |-> "",
     input |-> ArgMap(EmptyMap)]
ToolUse(id, name, input) ==
    [type |-> "tool_use", text |-> "", id |-> id, name |-> name, input |-> input]

UserText(query) ==
    [role |-> "user", kind |-> "text", text |-> query, blocks |-> <<>>,
     results |-> <<>>, raw |-> NoContent]
UserRaw(content) ==
    [role |-> "user", kind |-> "raw", text |-> "", blocks |-> <<>>,
     results |-> <<>>, raw |-> content]
Assistant(blocks) ==
    [role |-> "assistant", kind |-> "blocks", text |-> "", blocks |-> blocks,
     results |-> <<>>, raw |-> NoContent]
UserResults(results) ==
    [role |-> "user", kind |-> "results", text |-> "", blocks |-> <<>>,
     results |-> results, raw |-> NoContent]

ToolResult(tool_use_id, content) ==
    [type |-> "tool_result", tool_use_id |-> tool_use_id, content |-> content]

\* the lines of final_text
TextLine(text) == [k |-> "text", text |-> text, name |-> "", content |-> NoContent]
MarkerLine(tool_name) ==
    [k |-> "marker", text |-> "", name |-> tool_name, content |-> NoContent]
ResultLine(content) == [k |-> "result", text |-> "", name |-> "", content |-> content]
ErrorLine(what) == [k |-> "error", text |-> what, name |-> "", content |-> NoContent]

\* a request to the model API
Request(msgs, with_tools, tools) ==
    [messages |-> msgs, with_tools |-> with_tools, tools |-> tools]

\* the declaration of one tool sent to the model
AnthropicTool(tool_info) ==
    [name |-> tool_info.name, description |-> tool_info.description,
     properties |-> [j \in DOMAIN tool_info.params |->
                        [name |-> tool_info.params[j].name,
                         type |-> QuerySchemaType(tool_info.params[j].type)]],
     required |-> [j \in DOMAIN tool_info.params |-> tool_info.params[j].name]]
\* a variant that declares only the tools that take parameters
AnthropicToolsWithParams(available_tools) ==
    LET declared == SelectSeq(available_tools, LAMBDA t : t.params # <<>>)
    IN  [j \in DOMAIN declared |-> AnthropicTool(declared[j])]
AnthropicTools(available_tools) ==
    [j \in DOMAIN available_tools |-> AnthropicTool(available_tools[j])]

\* the connected client of the queries: its catalog and its source
Catalog ==
    <<Tool("add", <<Param("a", AnnInt), Param("b", AnnInt)>>), Tool("boom", <<>>)>>
ScriptPath == <<"weather", ".py">>
Query == "q"

\* what the model API can answer
Response(failed, content) == [failed |-> failed, content |-> content]

TextT == TextBlock("t")
UseOk ==
    ToolUse("u1", "add",
            ArgMap([k \in {"a", "b"} |-> IF k = "a" THEN PyStr(One) ELSE PyStr(Two)]))
UseMissing == ToolUse("u2", "add", ArgMap([k \in {"a"} |-> PyStr(One)]))
UseUnknown == ToolUse("u3", "sub", ArgMap(EmptyMap))
UseUnparsable == ToolUse("u4", "add", ArgText("{a: 1"))
UseUncoercible ==
    ToolUse("u5", "add",
            ArgMap([k \in {"a", "b"} |->
                     IF k = "a" THEN PyStr(<<"a", "b", "c">>) ELSE PyStr(Two)]))
UseRaising == ToolUse("u6", "boom", ArgMap(EmptyMap))
BlockPool ==
    {TextT, UseOk, UseMissing, UseUnknown, UseUnparsable, UseUncoercible, UseRaising}

MaxBlocks == 3

\* tool-use ids are unique within a response
DistinctIds(content) ==
    \A j, k \in DOMAIN content :
        (j # k /\ content[j].type = "tool_use" /\ content[k].type = "tool_use")
        => content[j].id # content[k].id

Contents ==
    {c \in UNION {[1..n -> BlockPool] : n \in 0..MaxBlocks} : DistinctIds(c)}

FirstPool == {Response(TRUE, <<>>)} \cup {Response(FALSE, c) : c \in Contents}

FollowPool ==
    {Response(TRUE, <<>>), Response(FALSE, <<>>),
     Response(FALSE, <<TextBlock("f")>>),
     Response(FALSE, <<ToolUse("u9", "add", ArgMap(EmptyMap)), TextBlock("f")>>)}

\* what the tool source does during a query: the function boom raises, and
\* so does the session of MCPClient when it is asked to call it
EnvOf(tool_name) ==
    IF tool_name = "boom" THEN Env("ok", TRUE, "raise") ELSE Env("ok", TRUE, "ok")
RemoteRaises(tool_name) == tool_name = "boom"

NoPrev ==
    [variant |-> "none", cause |-> "none", reqs |-> <<>>, calls |-> <<>>,
     tool_uses |-> <<>>, final_text |-> <<>>]

\* the tool-use blocks of a response content, in order
ToolUses(content) == SelectSeq(content, LAMBDA b : b.type = "tool_use")

-----------------------------------------------------------------------------
(* The handlers                                                            *)

Variants == {"mcp", "custom", "wrapper"}

\* the same query and the same answers of the model are given to each handler
\* in turn
Turn(v) ==
    CASE v = "mcp" -> variant = "none"
      [] v = "custom" -> variant = "mcp"
      [] OTHER -> variant = "custom"

ModelReq(n) == [kind |-> "model", n |-> n]
ToolReq(n) == [kind |-> "tool", n |-> n]
ListReq == [kind |-> "list_tools", n |-> 0]

\* A query is submitted to a client. MCPClient first asks its session for the
\* tools; the two others build the declarations from the catalog and send the
\* first request to the model.
Start(v) ==
    /\ pc \in {"idle", "returned"}
    /\ Turn(v)
    /\ prev' = IF pc = "idle" THEN prev
               ELSE [variant |-> variant, cause |-> cause, reqs |-> reqs,
                     calls |-> calls, tool_uses |-> tool_uses,
                     final_text |-> final_text]
    /\ variant' = v
    /\ cause' = "none"
    /\ idx' = 1
    /\ messages' = <<UserText(Query)>>
    /\ final_text' = <<>>
    /\ tool_uses' = <<>>
    /\ calls' = <<>>
    /\ IF v = "mcp"
       THEN /\ reqs' = <<>>
            /\ inflight' = {ListReq}
            /\ pc' = "list_tools"
       ELSE /\ reqs' = <<Request(<<UserText(Query)>>, TRUE, AnthropicTools(Catalog))>>
            /\ inflight' = {ModelReq(1)}
            /\ pc' = "first"
    /\ UNCHANGED <<first, follow>>

\* MCPClient: the session answers list_tools, or fails; then the first request
ListToolsReturns ==
    /\ pc = "list_tools"
    /\ \E failed \in BOOLEAN :
        IF failed
        THEN /\ pc' = "raised" /\ cause' = "list_tools"
             /\ inflight' = inflight \ {ListReq}
             /\ UNCHANGED reqs
        ELSE /\ reqs' = <<Request(messages, TRUE, AnthropicTools(Catalog))>>
             /\ inflight' = (inflight \ {ListReq}) \cup {ModelReq(1)}
             /\ pc' = "first"
             /\ UNCHANGED cause
    /\ UNCHANGED <<first, follow, variant, idx, messages, final_text, tool_uses,
                   calls, prev>>

\* the answer to the first request: a failure makes process_query raise; the
\* wrapper of streamlit_app.py falls back on client.process_query, which
\* sends the request once more
FirstReturns ==
    /\ pc = "first"
    /\ IF ~first.failed
       THEN /\ pc' = "loop"
            /\ inflight' = inflight \ {ModelReq(1)}
            /\ UNCHANGED <<cause, reqs>>
       ELSE IF variant = "wrapper"
       THEN /\ pc' = "fallback"
            /\ reqs' = Append(reqs, Request(<<UserText(Query)>>, TRUE,
                                            AnthropicTools(Catalog)))
            /\ inflight' = (inflight \ {ModelReq(1)}) \cup {ModelReq(2)}
            /\ UNCHANGED cause
       ELSE /\ pc' = "raised" /\ cause' = "model"
            /\ inflight' = inflight \ {ModelReq(1)}
            /\ UNCHANGED reqs
    /\ UNCHANGED <<first, follow, variant, idx, messages, final_text, tool_uses,
                   calls, prev>>

\* the fallback of the wrapper: CustomMCPClient.process_query of
\* streamlit_app.py returns the text of the first block, or an error text
FallbackReturns ==
    /\ pc = "fallback"
    /\ inflight' = inflight \ {ModelReq(2)}
    /\ final_text' =
          IF ~follow.failed /\ follow.content # <<>> /\ follow.content[1].type = "text"
          THEN <<TextLine(follow.content[1].text)>>
          ELSE <<ErrorLine("process_query")>>
    /\ pc' = "returned"
    /\ UNCHANGED <<first, follow, variant, cause, idx, messages, tool_uses,
                   reqs, calls, prev>>

\* a text block of the first response
TextStep ==
    /\ pc = "loop" /\ idx <= Len(first.content)
    /\ first.content[idx].type = "text"
    /\ final_text' = Append(final_text, TextLine(first.content[idx].text))
    /\ idx' = idx + 1
    /\ UNCHANGED <<first, follow, variant, pc, cause, messages, tool_uses,
                   inflight, reqs, calls, prev>>

\* mutant: the call is sent and the loop goes on without awaiting it
IssueToolCallNoAwait ==
    /\ pc = "loop" /\ idx <= Len(first.content)
    /\ first.content[idx].type = "tool_use"
    /\ calls' = Append(calls, [id |-> first.content[idx].id,
                               name |-> first.content[idx].name,
                               input |-> first.content[idx].input])
    /\ inflight' = inflight \cup {ToolReq(idx)}
    /\ idx' = idx + 1
    /\ UNCHANGED <<first, follow, variant, pc, cause, messages, final_text,
                   tool_uses, reqs, prev>>

\* a tool-use block: the call is sent to the backend and awaited
IssueToolCall ==
    /\ pc = "loop" /\ idx <= Len(first.content)
    /\ first.content[idx].type = "tool_use"
    /\ calls' = Append(calls, [id |-> first.content[idx].id,
                               name |-> first.content[idx].name,
                               input |-> first.content[idx].input])
    /\ inflight' = inflight \cup {ToolReq(idx)}
    /\ pc' = "tool"
    /\ UNCHANGED <<first, follow, variant, cause, idx, messages, final_text,
                   tool_uses, reqs, prev>>

\* what the session of MCPClient answers: the result of the server, which
\* runs the same tool source, or an exception
RemoteContent(block, raised) ==
    IF raised THEN Content("remote_error", block.name, "", <<>>, "", PyNone)
    ELSE call_tool(Catalog, ScriptPath, block.name, block.input,
                   Env("ok", TRUE, "ok")).resp

\* mutant: session.call_tool is not guarded, its exception ends the query
McpToolResultUnguarded(block, raised) ==
    [abort |-> raised,
     content |-> IF raised
                 THEN Content("call_error", block.name, "", <<>>, "", PyNone)
                 ELSE RemoteContent(block, FALSE)]

\* MCPClient.process_query: session.call_tool under try/except
McpToolResult(block, raised) ==
    [abort |-> FALSE,
     content |-> IF raised
                 THEN Content("call_error", block.name, "", <<>>, "", PyNone)
                 ELSE RemoteContent(block, FALSE)]

\* CustomMCPClient.process_query: self.call_tool, not guarded
CustomToolResult(block, env) ==
    [abort |-> FALSE,
     content |-> call_tool(Catalog, ScriptPath, block.name, block.input, env).resp]

\* the wrapper calls call_tool of the CustomMCPClient of streamlit_app.py under
\* try/except; that call_tool binds SimpleResponse as a local name only after
\* the function has returned, so each of its error returns raises instead
WrapperCaught(block, out) ==
    [abort |-> FALSE,
     content |-> IF out.resp.kind = "ok" THEN out.resp
                 ELSE Content("call_error", block.name, "", <<>>, "", PyNone)]
WrapperToolResult(block, env) ==
    WrapperCaught(block, call_tool(Catalog, ScriptPath, block.name, block.input, env))

\* the result of the call of a tool-use block, by handler
ToolOutcome(v, block) ==
    CASE v = "mcp" -> McpToolResult(block, RemoteRaises(block.name))
      [] v = "custom" -> CustomToolResult(block, EnvOf(block.name))
      [] OTHER -> WrapperToolResult(block, EnvOf(block.name))

\* the result is recorded; MCPClient then sends a follow-up request at once,
\* inside the loop
RecordResult(block, res, msgs) ==
    IF res.abort
    THEN /\ pc' = "raised" /\ cause' = "tool"
         /\ inflight' = inflight \ {ToolReq(idx)}
         /\ UNCHANGED <<idx, messages, final_text, tool_uses, reqs>>
    ELSE /\ final_text' = final_text \o <<MarkerLine(block.name),
                                         ResultLine(res.content)>>
         /\ tool_uses' = Append(tool_uses,
                                [id |-> block.id, name |-> block.name,
                                 result |-> res.content])
         /\ UNCHANGED cause
         /\ IF variant = "mcp"
            THEN /\ messages' = msgs
                 /\ reqs' = Append(reqs, Request(msgs, FALSE, <<>>))
                 /\ inflight' = (inflight \ {ToolReq(idx)})
                                \cup {ModelReq(Len(reqs) + 1)}
                 /\ pc' = "follow"
                 /\ UNCHANGED idx
            ELSE /\ inflight' = inflight \ {ToolReq(idx)}
                 /\ idx' = idx + 1
                 /\ pc' = "loop"
                 /\ UNCHANGED <<messages, reqs>>

\* the backend answers the call
ToolAnswered(block, res) ==
    RecordResult(block, res, Append(messages, UserRaw(res.content)))

ToolReturns ==
    /\ pc = "tool"
    /\ ToolAnswered(first.content[idx], ToolOutcome(variant, first.content[idx]))
    /\ UNCHANGED <<first, follow, variant, calls, prev>>

\* mutant: the follow-up request is sent whether or not a tool was used
AlwaysFollowUp(uses) == TRUE

\* CustomMCPClient.process_query: a follow-up only if a tool was used
NeedsFollowUp(uses) == uses # <<>>

\* the history of the one follow-up request of CustomMCPClient and of the
\* wrapper: the query, the assistant turn, the tool results
FollowUpMessages(uses) ==
    <<UserText(Query), Assistant(first.content),
      UserResults([j \in DOMAIN uses |-> ToolResult(uses[j].id, uses[j].result)])>>

\* the end of the loop over the blocks
EndLoop ==
    /\ pc = "loop" /\ idx > Len(first.content)
    /\ IF variant = "mcp"
       THEN /\ pc' = "returned"
            /\ UNCHANGED <<messages, inflight, reqs>>
       ELSE IF NeedsFollowUp(tool_uses)
       THEN /\ messages' = FollowUpMessages(tool_uses)
            /\ reqs' = Append(reqs, Request(FollowUpMessages(tool_uses), FALSE, <<>>))
            /\ inflight' = inflight \cup {ModelReq(Len(reqs) + 1)}
            /\ pc' = "follow"
       ELSE /\ messages' = IF variant = "wrapper"
                           THEN Append(messages, Assistant(first.content))
                           ELSE messages
            /\ pc' = "returned"
            /\ UNCHANGED <<inflight, reqs>>
    /\ UNCHANGED <<first, follow, variant, cause, idx, final_text, tool_uses,
                   calls, prev>>

\* the answer to a follow-up request
FollowReturns ==
    /\ pc = "follow"
    /\ inflight' = inflight \ {ModelReq(Len(reqs))}
    /\ LET textFirst == follow.content # <<>> /\ follow.content[1].type = "text"
           line == TextLine(follow.content[1].text)
       IN  CASE variant = "mcp" ->
                  IF follow.failed
                  THEN /\ pc' = "raised" /\ cause' = "model"
                       /\ UNCHANGED <<idx, final_text>>
                  ELSE IF ~textFirst
                  THEN /\ pc' = "raised" /\ cause' = "follow_up_content"
                       /\ UNCHANGED <<idx, final_text>>
                  ELSE /\ final_text' = Append(final_text, line)
                       /\ idx' = idx + 1
                       /\ pc' = "loop"
                       /\ UNCHANGED cause
             [] variant = "custom" ->
                  IF follow.failed
                  THEN /\ pc' = "raised" /\ cause' = "model"
                       /\ UNCHANGED <<idx, final_text>>
                  ELSE IF follow.content = <<>>
                  THEN /\ pc' = "returned"
                       /\ UNCHANGED <<idx, final_text, cause>>
                  ELSE IF ~textFirst
                  THEN /\ pc' = "raised" /\ cause' = "follow_up_content"
                       /\ UNCHANGED <<idx, final_text>>
                  ELSE /\ final_text' = Append(final_text, line)
                       /\ pc' = "returned"
                       /\ UNCHANGED <<idx, cause>>
             [] OTHER ->
                  /\ final_text' =
                        IF follow.failed THEN Append(final_text, ErrorLine("follow_up"))
                        ELSE IF follow.content = <<>> THEN final_text
                        ELSE IF ~textFirst
                        THEN Append(final_text, ErrorLine("follow_up"))
                        ELSE Append(final_text, line)
                  /\ pc' = "returned"
                  /\ UNCHANGED <<idx, cause>>
    /\ UNCHANGED <<first, follow, variant, messages, tool_uses, reqs, calls, prev>>

\* process_query_async of client_st.py: an exception of process_query
\* becomes the returned error text
Catch ==
    /\ pc = "raised"
    /\ final_text' = <<ErrorLine(cause)>>
    /\ pc' = "returned"
    /\ UNCHANGED <<first, follow, variant, cause, idx, messages, tool_uses,
                   inflight, reqs, calls, prev>>

\* the session state a new browser session starts with
SessionState(client, connected, chat_history, available_tools) ==
    [client |-> client, connected |-> connected, chat_history |-> chat_history,
     available_tools |-> available_tools]
\* a method call or handler run: its name and the name of the one before, its
\* outcome, the client it acted on and that client as it was before, and for
\* a connect the path and the file given
Op(op, prevop, res, id, before, path, file) ==
    [op |-> op, prevop |-> prevop, res |-> res, id |-> id, before |-> before,
     path |-> path, file |-> file]
NoFile == [readable |-> FALSE, decls |-> <<>>]
NoOp == Op("none", "none", "none", 0, <<>>, <<>>, NoFile)
AppIdle ==
    /\ clients = <<>>
    /\ st = SessionState(0, FALSE, <<>>, <<>>)
    /\ lastop = NoOp
    /\ nops = 0

QueryIdle ==
    /\ variant = "none" /\ pc = "idle" /\ cause = "none" /\ idx = 1
    /\ messages = <<>> /\ final_text = <<>> /\ tool_uses = <<>>
    /\ inflight = {} /\ reqs = <<>> /\ calls = <<>>
    /\ prev = NoPrev

CallIdle ==
    /\ cpc = "idle" /\ ctools = Catalog /\ cpath = ScriptPath /\ cname = "add"
    /\ cargs = ArgMap(EmptyMap) /\ cenv = Env("ok", TRUE, "ok") /\ cout = NoOutcome

Init ==
    /\ first \in FirstPool
    /\ follow \in FollowPool
    /\ QueryIdle
    /\ CallIdle
    /\ AppIdle

Next ==
    \/ \E v \in Variants : Start(v) /\ UNCHANGED <<callVars, appVars>>
    \/ ListToolsReturns /\ UNCHANGED <<callVars, appVars>>
    \/ FirstReturns /\ UNCHANGED <<callVars, appVars>>
    \/ FallbackReturns /\ UNCHANGED <<callVars, appVars>>
    \/ TextStep /\ UNCHANGED <<callVars, appVars>>
    \/ IssueToolCall /\ UNCHANGED <<callVars, appVars>>
    \/ ToolReturns /\ UNCHANGED <<callVars, appVars>>
    \/ EndLoop /\ UNCHANGED <<callVars, appVars>>
    \/ FollowReturns /\ UNCHANGED <<callVars, appVars>>
    \/ Catch /\ UNCHANGED <<callVars, appVars>>

Spec == Init /\ [][Next]_vars

-----------------------------------------------------------------------------
(* One call of call_tool on every input of the pools                       *)

InitCall ==
    /\ cpc = "ready"
    /\ ctools \in {<<Tool("add", ps)>> : ps \in ParamLists}
    /\ cpath \in PathPool
    /\ cname \in {"add", "sub"}
    /\ cargs \in ArgPool
    /\ cenv = Env("ok", TRUE, "ok")
    /\ cout = NoOutcome
    /\ first = Response(FALSE, <<>>)
    /\ follow = Response(FALSE, <<>>)
    /\ QueryIdle
    /\ AppIdle

CallTool ==
    /\ cpc = "ready"
    /\ \E env \in Envs :
        /\ cenv' = env
        /\ cout' = call_tool(ctools, cpath, cname, cargs, env)
    /\ cpc' = "returned"
    /\ UNCHANGED <<ctools, cpath, cname, cargs>>
    /\ UNCHANGED <<queryVars, appVars>>

NextCall == CallTool

SpecCall == InitCall /\ [][NextCall]_vars

-----------------------------------------------------------------------------
(* Claims about call_tool, checked under SpecCall                          *)

\* the descriptor the call addresses, and the mapping the call supplies
\* (given directly, or as a text that parses to a mapping)
Called == ctools[FindTool(ctools, cname)]
Found == FindTool(ctools, cname) # 0
SuppliesMap ==
    \/ cargs.form = "map"
    \/ cargs.form = "text" /\ JsonLoads(cargs.txt).exc = "none"
                           /\ JsonLoads(cargs.txt).v.form = "map"
Supplied == IF cargs.form = "map" THEN cargs.m ELSE JsonLoads(cargs.txt).v.m
Declared == {Called.params[i].name : i \in DOMAIN Called.params}
PresentIdx == {i \in DOMAIN Called.params : Called.params[i].name \in DOMAIN Supplied}
FailsCoercion(i) ==
    Coerce(Called.params[i].type, Supplied[Called.params[i].name]).exc # "none"
\* the declared names the input omits, in declaration order
Omitted ==
    LET omitted(p) == p.name \notin DOMAIN Supplied
        sel == SelectSeq(Called.params, omitted)
    IN  [i \in DOMAIN sel |-> sel[i].name]

\* C7: a call that omits declared parameters, none of the present ones
\* failing its conversion, returns one missing-parameter error listing all
\* the omitted names in declaration order, and neither executes the source
\* nor calls the function.
C7_MissingBatched ==
    (/\ cpc = "returned" /\ Found /\ SuppliesMap
     /\ Omitted # <<>>
     /\ \A i \in PresentIdx : ~FailsCoercion(i))
    => (/\ cout.resp.kind = "missing"
        /\ cout.resp.names = Omitted
        /\ ~cout.loaded /\ ~cout.invoked)

\* C7 witness: both of two declared parameters omitted, b declared before a
C7_Witness ==
    /\ cpc = "returned" /\ Found /\ SuppliesMap
    /\ Len(Called.params) = 2 /\ Called.params[1].name = "b"
    /\ cout.resp.kind = "missing" /\ cout.resp.names = <<"b", "a">>

\* C8 (as claimed): when the conversion of a present declared parameter
\* fails, the call fails with the conversion error naming a failing
\* parameter, the source is not executed and the function is not called.
C8_CoercionAllOrNothing ==
    (/\ cpc = "returned" /\ Found /\ SuppliesMap
     /\ \E i \in PresentIdx : FailsCoercion(i))
    => (/\ cout.resp.kind = "coercion"
        /\ \E i \in PresentIdx :
              FailsCoercion(i) /\ cout.resp.param = Called.params[i].name
        /\ ~cout.loaded /\ ~cout.invoked)

\* the values of the Python type a tag declares
ValidFor(tag, v) ==
    CASE tag = "float" -> v.t \in {"int", "float"}
      [] tag = "integer" -> v.t = "int"
      [] tag = "boolean" -> v.t = "bool"
      [] OTHER -> v.t = "str"

TwoValid ==
    /\ Found /\ cargs.form = "map"
    /\ Len(Called.params) = 2
    /\ DOMAIN cargs.m = Declared
    /\ \A i \in DOMAIN Called.params :
          ValidFor(TypeTag(Called.params[i].type), cargs.m[Called.params[i].name])

\* C9: a call that supplies exactly the two declared parameters with values
\* of their declared types yields neither a missing-parameter nor a
\* conversion error, and where the source provides the function it is called
\* with both arguments.
C9_ValidCallPasses ==
    (cpc = "returned" /\ TwoValid)
    => (/\ cout.resp.kind \notin {"missing", "coercion", "argproc", "parse", "notfound"}
        /\ (EndsWith(cpath, ".py") /\ cenv.load = "ok" /\ cenv.hasattr
              => cout.invoked /\ DOMAIN cout.kwargs = {"a", "b"}))

\* C9 witness: such a call has called the function
C9_Witness ==
    /\ cpc = "returned" /\ TwoValid /\ cout.invoked /\ cout.resp.kind = "ok"
    /\ TypeTag(Called.params[1].type) = "integer"
    /\ TypeTag(Called.params[2].type) = "float"

UpperChar(c) ==
    IF \E i \in DOMAIN LowerLetters : LowerLetters[i] = c
    THEN UpperLetters[CHOOSE i \in DOMAIN LowerLetters : LowerLetters[i] = c]
    ELSE c
EqIgnoreCase(s, w) ==
    /\ Len(s) = Len(w)
    /\ \A i \in DOMAIN w : s[i] = w[i] \/ s[i] = UpperChar(w[i])
SaysTrue(s) == \E w \in TrueStrings : EqIgnoreCase(s, w)

\* C10: the function receives, for a boolean-tagged parameter, true for a
\* string that is true, yes, 1 or y in any letter case, false for every other
\* string, and a boolean unchanged.
C10_BoolOfString ==
    (cpc = "returned" /\ Found /\ cargs.form = "map" /\ cout.invoked)
    => \A i \in DOMAIN Called.params :
          LET n == Called.params[i].name
              v == cargs.m[n]
          IN  TypeTag(Called.params[i].type) = "boolean"
              => /\ v.t = "str" => cout.kwargs[n] = PyBool(SaysTrue(v.s))
                 /\ v.t = "bool" => cout.kwargs[n] = v

\* C10 witness: "Yes" was passed as true and "no" as false
C10_Witness ==
    /\ cpc = "returned" /\ Found /\ cargs.form = "map" /\ cout.invoked
    /\ Len(Called.params) = 2
    /\ \A i \in {1, 2} : TypeTag(Called.params[i].type) = "boolean"
    /\ cargs.m["a"] = PyStr(<<"Y", "e", "s">>) /\ cout.kwargs["a"] = PyBool(TRUE)
    /\ cargs.m["b"] = PyStr(<<"n", "o">>) /\ cout.kwargs["b"] = PyBool(FALSE)

-----------------------------------------------------------------------------
(* Claims about the handlers, checked under Spec                           *)

\* the tool-use blocks of the first response, and their number k
FirstUses == ToolUses(first.content)
K == Len(FirstUses)
\* the first request was sent and answered
FirstAnswered == reqs # <<>> /\ ~first.failed /\ pc \notin {"list_tools", "first"}
Finished == pc = "returned"
Failed(content) == content.kind # "ok"

\* C1 (as claimed): a query whose first response holds k >= 1 tool-use blocks
\* sends exactly one follow-up request, two requests in all, under each of
\* the three handlers.
C1_TurnBound ==
    (Finished /\ variant \in Variants /\ FirstAnswered /\ K >= 1)
    => Len(reqs) = 2

\* the line after the marker of the j-th invocation holds its result
InTranscript(j) ==
    \E p \in 1..(Len(final_text) - 1) :
        /\ final_text[p] = MarkerLine(tool_uses[j].name)
        /\ final_text[p + 1] = ResultLine(tool_uses[j].result)

\* the j-th result was handed to the model as a tool result
InHistory(j) ==
    IF variant = "mcp"
    THEN \E r \in 2..Len(reqs) :
            reqs[r].messages[Len(reqs[r].messages)] = UserRaw(tool_uses[j].result)
    ELSE pc \in {"follow", "returned", "raised"}
         => /\ Len(reqs) = 2
            /\ reqs[2].messages[3].results[j].content = tool_uses[j].result

C3_ResultsByIdInOrder ==
    (variant \in {"mcp", "custom"} /\ FirstAnswered /\ K >= 1)
    => \A r \in 2..Len(reqs) :
          LET last == reqs[r].messages[Len(reqs[r].messages)]
          IN  /\ last.role = "user" /\ last.kind = "results"
              /\ Len(last.results) = K
              /\ \A j \in 1..K :
                    /\ last.results[j].tool_use_id = FirstUses[j].id
                    /\ last.results[j].content = tool_uses[j].result

\* C4: at most one request is outstanding, the backend calls follow the order
\* of the tool-use blocks, and each call is answered before anything else is
\* sent.
C4_OneOutstanding ==
    /\ Cardinality(inflight) <= 1
    /\ Len(calls) <= K
    /\ \A j \in DOMAIN calls : calls[j].id = FirstUses[j].id
    /\ Len(tool_uses) =
          IF \E q \in inflight : q.kind = "tool" THEN Len(calls) - 1 ELSE Len(calls)

\* C4 witness: the second call is outstanding, the first was answered
C4_Witness ==
    /\ Len(calls) = 2 /\ Len(tool_uses) = 1
    /\ \E q \in inflight : q.kind = "tool"

\* C5: a first response without tool-use block ends the turn: no tool call, no
\* second request, and the transcript is the text blocks of the response.
C5_NoToolsEndsTurn ==
    (Finished /\ variant \in {"mcp", "custom"} /\ FirstAnswered /\ K = 0)
    => /\ calls = <<>>
       /\ Len(reqs) = 1
       /\ final_text = [j \in DOMAIN first.content |->
                           TextLine(first.content[j].text)]

\* C5 witness: CustomMCPClient returned the two text blocks of the response
C5_Witness ==
    /\ Finished /\ variant = "custom" /\ FirstAnswered
    /\ K = 0 /\ Len(first.content) = 2 /\ Len(final_text) = 2

\* the results of the invocations, in order
Results(uses) == [j \in DOMAIN uses |-> uses[j].result]

\* C6 (as claimed): given the same query, the same answers of the model and
\* the same results of the tools (the session of MCPClient having answered
\* list_tools), MCPClient and CustomMCPClient send the same requests to the
\* model, make the same tool calls and return the same transcript.
C6_BackendsEquivalent ==
    (/\ Finished /\ variant = "custom" /\ prev.variant = "mcp"
     /\ prev.cause # "list_tools"
     /\ Results(prev.tool_uses) = Results(tool_uses))
    => /\ prev.reqs = reqs
       /\ prev.calls = calls
       /\ prev.final_text = final_text
       /\ prev.cause = cause


-----------------------------------------------------------------------------
(* extract_tools_from_script: the scan of a tool source                    *)

\* A source text is held as its tokens, white space left out. The pattern of
\* extract_tools_from_script reads nine of them in a row:
\*   @mcp.tool()  async  def NAME  ( [^)]* )  ->  \w+  :  """[^"]*"""
\* A token carries its kind and what the groups of the pattern capture.
Tok(k) == [k |-> k, name |-> "", params |-> <<>>, text |-> <<>>]
TokName(name) == [k |-> "name", name |-> name, params |-> <<>>, text |-> <<>>]
TokParams(pieces) == [k |-> "params", name |-> "", params |-> pieces, text |-> <<>>]
TokType(kind, text) == [k |-> kind, name |-> "", params |-> <<>>, text |-> text]
TokDoc(kind) == [k |-> kind, name |-> "d", params |-> <<>>, text |-> <<>>]

\* one piece of a parameter list, between two commas: name: type, or a bare name
Piece(name, type) == [name |-> name, type |-> type, colon |-> TRUE]
Bare(name) == [name |-> name, type |-> <<>>, colon |-> FALSE]

\* a function declaration of a tool source, by its features:
\*   deco   "tool": @mcp.tool(), "other": another decorator, "none"
\*   ret    "word": -> str, "subscript": -> list[str], "none": no annotation
\*   doc    "plain": a documentation block first in the body, "quoted": one
\*          that holds a double quote, "late": one after a first statement,
\*          "none": no documentation block
Decl(deco, async, name, pieces, ret, doc) ==
    [deco |-> deco, async |-> async, name |-> name, pieces |-> pieces,
     ret |-> ret, doc |-> doc]

\* the text of a declaration
DeclTokens(d) ==
    (CASE d.deco = "tool" -> <<Tok("marker")>>
       [] d.deco = "other" -> <<Tok("decorator")>>
       [] OTHER -> <<>>)
    \o (IF d.async THEN <<Tok("async")>> ELSE <<>>)
    \o <<Tok("def"), TokName(d.name), TokParams(d.pieces)>>
    \o (CASE d.ret = "word" -> <<Tok("arrow"), TokType("word", AnnStr)>>
          [] d.ret = "subscript" ->
                <<Tok("arrow"), TokType("subscript", <<"l", "i", "s", "t", "[", "s", "t", "r", "]">>)>>
          [] OTHER -> <<>>)
    \o <<Tok("colon")>>
    \o (CASE d.doc = "plain" -> <<TokDoc("doc")>>
          [] d.doc = "quoted" -> <<TokDoc("doc_with_quote")>>
          [] d.doc = "late" -> <<Tok("stmt"), TokDoc("doc")>>
          [] OTHER -> <<Tok("stmt")>>)

RECURSIVE SourceTokens(_)
SourceTokens(decls) ==
    IF decls = <<>> THEN <<>>
    ELSE DeclTokens(Head(decls)) \o SourceTokens(Tail(decls))

\* the kinds of the tokens function_pattern matches, in a row
function_pattern ==
    <<"marker", "async", "def", "name", "params", "arrow", "word", "colon", "doc">>

MatchesAt(toks, i) ==
    /\ i + Len(function_pattern) - 1 <= Len(toks)
    /\ \A j \in DOMAIN function_pattern : toks[i + j - 1].k = function_pattern[j]

\* params_str split at the commas: the pieces with a colon, name and type
\* stripped
ParseParams(pieces) ==
    LET withColon(x) == x.colon
        sel == SelectSeq(pieces, withColon)
    IN  [j \in DOMAIN sel |-> Param(sel[j].name, sel[j].type)]

\* tool_info of the match that starts at token i
ToolInfo(toks, i) ==
    [name |-> toks[i + 3].name, description |-> toks[i + 8].name,
     params |-> ParseParams(toks[i + 4].params), return_type |-> toks[i + 6].text]

\* a variant of the scan that gives up at the first token that starts no match
RECURSIVE FindAllUntilMismatch(_, _, _)
FindAllUntilMismatch(toks, i, tools) ==
    IF i > Len(toks) THEN tools
    ELSE IF MatchesAt(toks, i)
    THEN FindAllUntilMismatch(toks, i + Len(function_pattern),
                              Append(tools, ToolInfo(toks, i)))
    ELSE tools

\* re.findall: the matches from left to right, none overlapping another
RECURSIVE FindAll(_, _, _)
FindAll(toks, i, tools) ==
    IF i > Len(toks) THEN tools
    ELSE IF MatchesAt(toks, i)
    THEN FindAll(toks, i + Len(function_pattern), Append(tools, ToolInfo(toks, i)))
    ELSE FindAll(toks, i + 1, tools)

\* a file: readable or not, and its declarations
File(readable, decls) == [readable |-> readable, decls |-> decls]

\* extract_tools_from_script(script_path), file being what is at the path; a
\* file that cannot be read gives the empty list
extract_tools_from_script(file) ==
    IF ~file.readable THEN <<>>
    ELSE FindAll(SourceTokens(file.decls), 1, <<>>)

-----------------------------------------------------------------------------
(* The two clients: construction, connect_to_server, list_tools, cleanup   *)

\* A client object. MCPClient has session, stdio and exit_stack;
\* CustomMCPClient has available_tools and server_script_path (<<>>: None).
\* session is "none" (None), "open", or "closed" (the object is still held,
\* its context was exited). The other fields record what the object did:
\* processes spawned, resources released, texts scanned, executions of the
\* top-level code of the source, tool functions run, messages sent to the child process, and whether it is connected and was
\* cleaned up since.
Client(kind) ==
    [kind |-> kind, session |-> "none", stdio |-> FALSE, exit_stack |-> <<>>,
     available_tools |-> <<>>, server_script_path |-> <<>>,
     spawns |-> 0, releases |-> 0, scans |-> 0, loads |-> 0, runs |-> 0,
     contacts |-> 0, connected |-> FALSE, cleaned |-> FALSE]

\* what a method call gives: the object afterwards and "ok" or the exception
Did(c, res) == [c |-> c, res |-> res]

SupportedExtension(path) == EndsWith(path, ".py") \/ EndsWith(path, ".js")

\* MCPClient.connect_to_server, by how far the server lets it get
McpSpawned(c) ==
    [c EXCEPT !.spawns = @ + 1, !.stdio = TRUE,
              !.exit_stack = Append(@, "stdio_client")]
McpSession(c) ==
    [c EXCEPT !.session = "open", !.exit_stack = Append(@, "ClientSession")]
McpConnect(c, path, env) ==
    IF ~SupportedExtension(path) THEN Did(c, "ValueError")
    ELSE IF env = "spawn_fails" THEN Did(c, "OSError")
    ELSE IF env = "initialize_fails"
    THEN Did([McpSession(McpSpawned(c)) EXCEPT !.contacts = @ + 1], "McpError")
    ELSE IF env = "list_tools_fails"
    THEN Did([McpSession(McpSpawned(c)) EXCEPT !.contacts = @ + 2], "McpError")
    ELSE Did([McpSession(McpSpawned(c)) EXCEPT !.contacts = @ + 2,
                                               !.connected = TRUE,
                                               !.cleaned = FALSE], "ok")

\* CustomMCPClient.connect_to_server: the path is stored, then checked, then
\* the file is scanned
CustomScanned(c, file) ==
    [c EXCEPT !.available_tools = extract_tools_from_script(file),
              !.scans = @ + 1, !.connected = TRUE, !.cleaned = FALSE]
CustomConnect(c, path, file) ==
    IF ~SupportedExtension(path)
    THEN Did([c EXCEPT !.server_script_path = path], "ValueError")
    ELSE Did(CustomScanned([c EXCEPT !.server_script_path = path], file), "ok")

connect_to_server(c, path, env, file) ==
    IF c.kind = "mcp" THEN McpConnect(c, path, env) ELSE CustomConnect(c, path, file)

\* list_tools: MCPClient asks its session, which fails once it is closed;
\* CustomMCPClient answers from available_tools
list_tools(c) ==
    IF c.kind = "custom" THEN Did(c, "ok")
    ELSE IF c.session = "none" THEN Did(c, "ValueError")
    ELSE IF c.session = "closed" THEN Did(c, "ClosedResourceError")
    ELSE Did([c EXCEPT !.contacts = @ + 1], "ok")

\* mutant: the contexts are exited and left on the stack
McpCleanupKeepsStack(c) ==
    [c EXCEPT !.releases = @ + Len(c.exit_stack),
              !.session = IF c.session = "open" THEN "closed" ELSE @,
              !.cleaned = c.connected]

\* MCPClient.cleanup: exit_stack.aclose() exits the contexts it holds and
\* holds none afterwards
McpCleanup(c) ==
    [c EXCEPT !.releases = @ + Len(c.exit_stack),
              !.exit_stack = <<>>,
              !.session = IF c.session = "open" THEN "closed" ELSE @,
              !.cleaned = c.connected]

\* CustomMCPClient.cleanup returns True
CustomCleanup(c) == [c EXCEPT !.cleaned = c.connected]

cleanup(c) ==
    IF c.kind = "mcp" THEN Did(McpCleanup(c), "ok") ELSE Did(CustomCleanup(c), "ok")

\* client.call_tool(name, args): MCPClient has no such method
ClientCallOutcome(c, out) ==
    Did([c EXCEPT !.loads = @ + (IF out.loaded THEN 1 ELSE 0),
                  !.runs = @ + (IF out.invoked THEN 1 ELSE 0)],
        IF out.resp.kind = "ok" THEN "ok" ELSE out.resp.kind)
client_call_tool(c, name, args) ==
    IF c.kind = "mcp" THEN Did(c, "AttributeError")
    ELSE ClientCallOutcome(c, call_tool(c.available_tools, c.server_script_path,
                                        name, args, Env("ok", TRUE, "ok")))

\* process_query_async(client, query) of client_st.py, the model asking for the
\* tool add or answering in text: what the client does, and "ok" or "error"
\* for the text returned
McpQuery(c, uses_tool) ==
    IF c.session = "none" THEN Did(c, "error")
    ELSE IF c.session = "closed" THEN Did(c, "error")
    ELSE IF uses_tool
    THEN Did([c EXCEPT !.contacts = @ + 2, !.runs = @ + 1], "ok")
    ELSE Did([c EXCEPT !.contacts = @ + 1], "ok")
CustomQuery(c, uses_tool) ==
    IF uses_tool
    THEN Did(client_call_tool(c, UseOk.name, UseOk.input).c, "ok")
    ELSE Did(c, "ok")
process_query_async(c, model_fails, uses_tool) ==
    IF c.kind = "mcp"
    THEN IF model_fails /\ c.session = "open"
         THEN Did([c EXCEPT !.contacts = @ + 1], "error")
         ELSE McpQuery(c, uses_tool)
    ELSE IF model_fails THEN Did(c, "error") ELSE CustomQuery(c, uses_tool)

-----------------------------------------------------------------------------
(* The methods called on one client object, in any order                   *)

MaxOps == 3

ConnectPaths == {<<"weather", ".py">>, <<"server", ".js">>, <<"notes", ".txt">>}
ConnectEnvs == {"ok", "spawn_fails", "initialize_fails", "list_tools_fails"}

\* the declarations of the tool sources
PlainPieces == <<Piece("a", AnnInt), Piece("b", AnnInt)>>
DeclPool ==
    {Decl("tool", TRUE, "add", PlainPieces, "word", "plain"),
     Decl("tool", TRUE, "greet", <<Bare("self"), Piece("x", AnnStr)>>, "word", "plain"),
     Decl("tool", TRUE, "names", <<>>, "subscript", "plain"),
     Decl("tool", TRUE, "quote", <<>>, "word", "quoted"),
     Decl("tool", TRUE, "late", <<>>, "word", "late"),
     Decl("tool", TRUE, "bare", <<>>, "none", "plain"),
     Decl("tool", TRUE, "nodoc", <<>>, "word", "none"),
     Decl("tool", FALSE, "sync", <<>>, "word", "plain"),
     Decl("other", TRUE, "other", <<>>, "word", "plain"),
     Decl("none", TRUE, "helper", <<>>, "word", "plain")}
MaxDecls == 2
FilePool ==
    {NoFile}
    \cup {File(TRUE, ds) : ds \in UNION {[1..n -> DeclPool] : n \in 0..MaxDecls}}

\* the files the one client is connected to
ClientFiles ==
    {NoFile,
     File(TRUE, <<Decl("tool", TRUE, "add", PlainPieces, "word", "plain")>>),
     File(TRUE, <<Decl("tool", TRUE, "greet", <<Piece("x", AnnStr)>>, "word", "plain"),
                  Decl("tool", TRUE, "add", PlainPieces, "word", "plain")>>)}

InitClient ==
    /\ clients \in {<<Client("mcp")>>, <<Client("custom")>>}
    /\ st = SessionState(0, FALSE, <<>>, <<>>)
    /\ lastop = NoOp
    /\ nops = 0
    /\ first = Response(FALSE, <<>>)
    /\ follow = Response(FALSE, <<>>)
    /\ QueryIdle
    /\ CallIdle

\* the call is recorded with the object it started from
Called1(op, did, path, file) ==
    /\ nops < MaxOps
    /\ clients' = <<did.c>>
    /\ lastop' = Op(op, lastop.op, did.res, 1, clients[1], path, file)
    /\ nops' = nops + 1
    /\ UNCHANGED st

ConnectToServer ==
    \E path \in ConnectPaths :
        IF clients[1].kind = "mcp"
        THEN \E env \in ConnectEnvs :
                Called1("connect_to_server",
                        connect_to_server(clients[1], path, env, NoFile), path, NoFile)
        ELSE \E file \in ClientFiles :
                Called1("connect_to_server",
                        connect_to_server(clients[1], path, "ok", file), path, file)

ListTools == Called1("list_tools", list_tools(clients[1]), <<>>, NoFile)

CallToolOfClient ==
    \E name \in {"add", "sub"} :
        Called1("call_tool", client_call_tool(clients[1], name, UseOk.input),
                <<>>, NoFile)

ProcessQuery ==
    \E model_fails \in BOOLEAN, uses_tool \in BOOLEAN :
        Called1("process_query",
                process_query_async(clients[1], model_fails, uses_tool), <<>>, NoFile)

Cleanup == Called1("cleanup", cleanup(clients[1]), <<>>, NoFile)

NextClient ==
    \/ ConnectToServer /\ UNCHANGED <<callVars, queryVars>>
    \/ ListTools /\ UNCHANGED <<callVars, queryVars>>
    \/ CallToolOfClient /\ UNCHANGED <<callVars, queryVars>>
    \/ ProcessQuery /\ UNCHANGED <<callVars, queryVars>>
    \/ Cleanup /\ UNCHANGED <<callVars, queryVars>>

SpecClient == InitClient /\ [][NextClient]_vars

-----------------------------------------------------------------------------
(* One connect of a new CustomMCPClient to every file of the pool          *)

InitExtract ==
    /\ clients = <<Client("custom")>>
    /\ st = SessionState(0, FALSE, <<>>, <<>>)
    /\ lastop = NoOp
    /\ nops = 0
    /\ first = Response(FALSE, <<>>)
    /\ follow = Response(FALSE, <<>>)
    /\ QueryIdle
    /\ CallIdle

ScanFile ==
    /\ nops = 0
    /\ \E file \in FilePool :
          Called1("connect_to_server",
                  connect_to_server(clients[1], ScriptPath, "ok", file),
                  ScriptPath, file)
    /\ UNCHANGED <<callVars, queryVars>>

NextExtract == ScanFile

SpecExtract == InitExtract /\ [][NextExtract]_vars

-----------------------------------------------------------------------------
(* The handlers of the application: connect, disconnect, chat input        *)

\* the tools a server process reports for its source: the decorated
\* declarations
Decorated(d) == d.deco = "tool"
ServerTools(file) == SelectSeq(file.decls, Decorated)

\* the tools CustomMCPClient.list_tools returns: the name, the description
\* and the schema properties of each descriptor
ListedTools(available_tools) ==
    [j \in DOMAIN available_tools |->
        [name |-> available_tools[j].name,
         description |-> available_tools[j].description,
         inputSchema |-> [k \in DOMAIN available_tools[j].params |->
                            [name |-> available_tools[j].params[k].name,
                             type |-> ListSchemaType(available_tools[j].params[k].type)]]]]

\* the names of a list of tools
CatalogNames(tools) == [j \in DOMAIN tools |-> tools[j].name]

\* the names the connect handler stores in available_tools
ListedNames(c, file) ==
    IF c.kind = "custom" THEN CatalogNames(ListedTools(c.available_tools))
    ELSE CatalogNames(ServerTools(file))

\* the client the mode selects
ClientOfMode(mode) == IF mode = "Windows" THEN Client("custom") ELSE Client("mcp")

\* the connect handler once the client is made and connect_to_server has
\* returned or raised: on success the tools are listed and the client becomes
\* the session's; on failure the client is let go as it is
Connected(made, did, file) ==
    /\ clients' = Append(clients, IF did.res = "ok" THEN list_tools(did.c).c
                                  ELSE did.c)
    /\ st' = IF did.res = "ok"
             THEN SessionState(Len(clients) + 1, TRUE, st.chat_history,
                               ListedNames(did.c, file))
             ELSE st
    /\ lastop' = Op("connect", lastop.op, did.res, Len(clients) + 1, made,
                    ScriptPath, file)

ConnectClick ==
    /\ nops < MaxOps
    /\ nops' = nops + 1
    /\ \E exists \in BOOLEAN :
          IF ~exists
          THEN /\ lastop' = Op("connect", lastop.op, "FileNotFoundError", 0,
                               <<>>, ScriptPath, NoFile)
               /\ UNCHANGED <<clients, st>>
          ELSE \E mode \in {"normal", "Windows"}, file \in ClientFiles :
                  IF mode = "normal"
                  THEN \E env \in ConnectEnvs :
                          Connected(ClientOfMode(mode),
                                    connect_to_server(ClientOfMode(mode), ScriptPath,
                                                      env, file), file)
                  ELSE Connected(ClientOfMode(mode),
                                 connect_to_server(ClientOfMode(mode), ScriptPath,
                                                   "ok", file), file)

\* a variant of the disconnect buttons that keeps the chat history
DisconnectedKeepsHistory(name) ==
    /\ nops < MaxOps
    /\ st.connected
    /\ nops' = nops + 1
    /\ clients' = IF st.client # 0
                  THEN [clients EXCEPT ![st.client] = cleanup(clients[st.client]).c]
                  ELSE clients
    /\ st' = SessionState(0, FALSE, st.chat_history, <<>>)
    /\ lastop' = Op(name, lastop.op, "ok", st.client, clients[st.client],
                    <<>>, NoFile)

\* the two disconnect buttons: cleanup of the client, then the reset
Disconnected(name) ==
    /\ nops < MaxOps
    /\ st.connected
    /\ nops' = nops + 1
    /\ clients' = IF st.client # 0
                  THEN [clients EXCEPT ![st.client] = cleanup(clients[st.client]).c]
                  ELSE clients
    /\ st' = SessionState(0, FALSE, <<>>, <<>>)
    /\ lastop' = Op(name, lastop.op, "ok", st.client, clients[st.client],
                    <<>>, NoFile)

DisconnectSidebar == Disconnected("disconnect_sidebar")
DisconnectFooter == Disconnected("disconnect_footer")

\* a variant of the chat input handler that keeps only the answered queries
AnsweredOnlyKept(did) ==
    /\ clients' = [clients EXCEPT ![st.client] = did.c]
    /\ st' = IF did.res = "ok" THEN [st EXCEPT !.chat_history = Append(@, did.res)]
             ELSE st
    /\ lastop' = Op("chat_input", lastop.op, did.res, st.client,
                    clients[st.client], <<>>, NoFile)

\* the chat input handler: the query is processed and appended with its
\* response to the chat history
Answered(did) ==
    /\ clients' = [clients EXCEPT ![st.client] = did.c]
    /\ st' = [st EXCEPT !.chat_history = Append(@, did.res)]
    /\ lastop' = Op("chat_input", lastop.op, did.res, st.client,
                    clients[st.client], <<>>, NoFile)

ChatInput ==
    /\ nops < MaxOps
    /\ st.connected
    /\ nops' = nops + 1
    /\ \E model_fails \in BOOLEAN, uses_tool \in BOOLEAN :
          Answered(process_query_async(clients[st.client], model_fails, uses_tool))

InitUI ==
    /\ AppIdle
    /\ first = Response(FALSE, <<>>)
    /\ follow = Response(FALSE, <<>>)
    /\ QueryIdle
    /\ CallIdle

NextUI ==
    \/ ConnectClick /\ UNCHANGED <<callVars, queryVars>>
    \/ DisconnectSidebar /\ UNCHANGED <<callVars, queryVars>>
    \/ DisconnectFooter /\ UNCHANGED <<callVars, queryVars>>
    \/ ChatInput /\ UNCHANGED <<callVars, queryVars>>

SpecUI == InitUI /\ [][NextUI]_vars

-----------------------------------------------------------------------------
(* Further claims about call_tool, checked under SpecCall                  *)

\* the conversion of the i-th declared parameter of the call, and the
\* conversion of its result under the same annotation
CoercedAt(i) == Coerce(Called.params[i].type, Supplied[Called.params[i].name])
CoercedAgain(i, r) == Coerce(Called.params[i].type, r.v)

\* C11: for every annotation and every supplied value whose conversion
\* succeeds, converting the converted value again under the same annotation
\* succeeds and gives the same value; so do the arguments the function was
\* called with.
C11_CoercionIdempotent ==
    (cpc = "returned" /\ Found /\ SuppliesMap)
    => /\ \A i \in PresentIdx :
            CoercedAt(i).exc = "none" => CoercedAgain(i, CoercedAt(i)) = CoercedAt(i)
       /\ cout.invoked
            => \A i \in DOMAIN Called.params :
                  Coerce(Called.params[i].type, cout.kwargs[Called.params[i].name])
                    = Ok(cout.kwargs[Called.params[i].name])

\* C11 witness: the function was called with the integer 2 converted from
\* the text "2.5" and with the text "1" converted from the integer 1
C11_Witness ==
    /\ cpc = "returned" /\ Found /\ cargs.form = "map" /\ cout.invoked
    /\ Len(Called.params) = 2
    /\ TypeTag(Called.params[1].type) = "integer"
    /\ TypeTag(Called.params[2].type) = "string"
    /\ cargs.m[Called.params[1].name] = PyStr(<<"2", ".", "5">>)
    /\ cout.kwargs[Called.params[1].name] = PyInt(2)
    /\ cargs.m[Called.params[2].name] = PyInt(1)
    /\ cout.kwargs[Called.params[2].name] = PyStr(<<"1">>)

-----------------------------------------------------------------------------
(* Claims about the methods of a client, checked under SpecClient          *)

\* the fields of the client object itself
Fields(c) ==
    <<c.session, c.stdio, c.exit_stack, c.available_tools, c.server_script_path>>

\* C12 (as claimed): connect_to_server with a path that ends neither in .py
\* nor in .js fails, and when it has failed no process was spawned, no text
\* was scanned and no field of the client was written.
C12_BadExtension ==
    (lastop.op = "connect_to_server" /\ ~SupportedExtension(lastop.path))
    => /\ lastop.res # "ok"
       /\ clients[1].spawns = lastop.before.spawns
       /\ clients[1].scans = lastop.before.scans
       /\ Fields(clients[1]) = Fields(lastop.before)

\* C13 (as claimed): once cleanup was called on a connected client, each
\* later list_tools, call_tool or process_query fails or returns an error,
\* runs no tool function and sends nothing to the child process.
C13_UnusableAfterCleanup ==
    (/\ lastop.op \in {"list_tools", "call_tool", "process_query"}
     /\ lastop.before.cleaned)
    => /\ lastop.res # "ok"
       /\ clients[1].runs = lastop.before.runs
       /\ clients[1].contacts = lastop.before.contacts

\* C14: a cleanup that follows a cleanup succeeds, releases nothing and
\* leaves the client, connected or not, as the first cleanup left it.
C14_CleanupIdempotent ==
    (lastop.op = "cleanup" /\ lastop.prevop = "cleanup")
    => /\ lastop.res = "ok"
       /\ clients[1].releases = lastop.before.releases
       /\ clients[1] = lastop.before

\* C14 witness: an MCPClient that was connected, whose first cleanup released
\* the transport and the session, was cleaned up a second time
C14_Witness ==
    /\ lastop.op = "cleanup" /\ lastop.prevop = "cleanup"
    /\ clients[1].kind = "mcp" /\ clients[1].connected
    /\ clients[1].releases = 2 /\ clients[1].exit_stack = <<>>

\* C17 (as claimed): a connect_to_server that fails leaves the catalog, the
\* source path and the transport and session fields of the client as they
\* were, and the session state of the application unchanged.
C17_FailedConnectLeavesState ==
    (lastop.op = "connect_to_server" /\ lastop.res # "ok")
    => /\ Fields(clients[1]) = Fields(lastop.before)
       /\ st = SessionState(0, FALSE, <<>>, <<>>)

\* C18 (as claimed): once a CustomMCPClient is connected, no later method
\* call, a further connect_to_server included, changes its catalog.
C18_CatalogFixed ==
    (clients[1].kind = "custom" /\ lastop.op # "none" /\ lastop.before.connected)
    => clients[1].available_tools = lastop.before.available_tools

-----------------------------------------------------------------------------
(* Claims about the scan of a source, checked under SpecExtract            *)

\* the shape the catalog is said to be extracted from: the annotation
\* marker, an async function, a parameter list, a declared return type and a
\* documentation block right after
HasShape(d) ==
    /\ d.deco = "tool" /\ d.async
    /\ d.ret # "none"
    /\ d.doc \in {"plain", "quoted"}
ShapedNames(decls) ==
    LET shaped == SelectSeq(decls, HasShape)
    IN  [j \in DOMAIN shaped |-> shaped[j].name]

\* C19 (as claimed): the catalog extracted from a readable source holds one
\* descriptor for each declaration of that shape, in order, and none for any
\* other declaration.
C19_ExtractionSelective ==
    (lastop.op = "connect_to_server" /\ lastop.file.readable)
    => CatalogNames(clients[1].available_tools) = ShapedNames(lastop.file.decls)

-----------------------------------------------------------------------------
(* Claims about the handlers of the application, checked under SpecUI      *)

\* C15 (as claimed): a client that is not, or no longer, the session's client
\* holds no process and no transport: cleanup has released what its
\* connect_to_server acquired.
C15_ReleasedWhenDropped ==
    \A i \in DOMAIN clients :
        i # st.client => clients[i].exit_stack = <<>>

-----------------------------------------------------------------------------
(* Further claims about the handlers of a query, checked under Spec        *)

\* a model request of the query has failed
Halted ==
    \/ pc = "first" /\ first.failed
    \/ pc = "follow" /\ follow.failed
    \/ pc = "raised"

\* C16 (as claimed): once a model request of a query has failed, the query
\* issues no further model request and no tool call, and goes on only to
\* return the failure to its caller.
C16_ModelFailureHalts ==
    [][Halted => /\ reqs' = reqs
                 /\ calls' = calls
                 /\ pc' \in {"raised", "returned"}]_vars

\* C20 (as claimed): when a tool was invoked, each request after the first
\* carries no tool declarations and has as its history the user query, the
\* assistant turn as received in the first response, and one user turn of
\* tool results.
C20_FollowUpHistory ==
    tool_uses # <<>>
    => \A j \in 2..Len(reqs) :
          /\ ~reqs[j].with_tools /\ reqs[j].tools = <<>>
          /\ Len(reqs[j].messages) = 3
          /\ reqs[j].messages[1] = UserText(Query)
          /\ reqs[j].messages[2] = Assistant(first.content)
          /\ reqs[j].messages[3].role = "user"
          /\ reqs[j].messages[3].kind = "results"

-----------------------------------------------------------------------------
(* Claims about the transcript and the requests, checked under Spec        *)

\* the transcript entries of the blocks of a response from block i on, the
\* j-th invocation being the next: the text of a text block, the marker and
\* the result of a tool-use block
RECURSIVE BlockLines(_, _, _, _)
BlockLines(content, uses, i, j) ==
    IF i > Len(content) THEN <<>>
    ELSE IF content[i].type = "text"
    THEN <<TextLine(content[i].text)>> \o BlockLines(content, uses, i + 1, j)
    ELSE <<MarkerLine(content[i].name), ResultLine(uses[j].result)>>
         \o BlockLines(content, uses, i + 1, j + 1)

\* the query returned the transcript, process_query having raised nothing
ReturnedTranscript ==
    /\ Finished /\ cause = "none" /\ FirstAnswered
    /\ Len(tool_uses) = K

\* C21 (as claimed): the transcript MCPClient or CustomMCPClient returns
\* holds the entries of the blocks of the first response in their order and,
\* after all of them, at most the text of the follow-up response.
C21_TranscriptInOrder ==
    (ReturnedTranscript /\ variant \in {"mcp", "custom"})
    => \/ final_text = BlockLines(first.content, tool_uses, 1, 1)
       \/ /\ K >= 1 /\ follow.content # <<>>
          /\ final_text = BlockLines(first.content, tool_uses, 1, 1)
                          \o <<TextLine(follow.content[1].text)>>

\* a response whose first block is not a text block while a later one is
LaterText(content) ==
    /\ content # <<>> /\ content[1].type # "text"
    /\ \E i \in DOMAIN content : content[i].type = "text"

\* the text of the first text block of a response
FirstText(content) ==
    content[CHOOSE i \in DOMAIN content :
               /\ content[i].type = "text"
               /\ \A j \in 1..(i - 1) : content[j].type # "text"].text

\* the follow-up request of the query was sent and answered
FollowAnswered ==
    /\ Finished /\ ~first.failed /\ Len(reqs) >= 2 /\ ~follow.failed

\* C22 (as claimed): when the answer to the follow-up request holds its first
\* text block after a block of another type, process_query_async of
\* client_st.py still returns the accumulated transcript (markers and
\* results) with that text appended.
C22_FollowUpFirstText ==
    (FollowAnswered /\ variant \in {"mcp", "custom"} /\ LaterText(follow.content))
    => /\ \E i \in DOMAIN final_text :
             final_text[i] = TextLine(FirstText(follow.content))
       /\ \E i \in DOMAIN final_text : final_text[i].k = "marker"

\* a request carries one declaration per descriptor of a catalog, in catalog
\* order, with the name, the description and one property per parameter
Advertises(req, tools) ==
    /\ req.with_tools
    /\ Len(req.tools) = Len(tools)
    /\ \A j \in DOMAIN tools :
          /\ req.tools[j].name = tools[j].name
          /\ req.tools[j].description = tools[j].description
          /\ Len(req.tools[j].properties) = Len(tools[j].params)
          /\ \A k \in DOMAIN tools[j].params :
                req.tools[j].properties[k].name = tools[j].params[k].name

\* C23: the first model request of a query carries exactly one declaration
\* per descriptor of the catalog, in catalog order, none omitted, none added.
C23_FirstRequestAdvertisesCatalog ==
    reqs # <<>> => Advertises(reqs[1], Catalog)

\* a query of each client whose first request was sent and answered
C23_Witness ==
    /\ variant = "custom" /\ pc = "loop" /\ reqs # <<>>
    /\ Len(reqs[1].tools) = 2 /\ reqs[1].tools[2].name = "boom"
    /\ prev.variant = "mcp" /\ prev.reqs # <<>>

-----------------------------------------------------------------------------
(* Further claims about one client object, checked under SpecClient        *)

\* the last two calls on the client were tool calls or queries, so that no
\* connect_to_server came between them
SameSession ==
    /\ lastop.op \in {"call_tool", "process_query"}
    /\ lastop.prevop \in {"call_tool", "process_query"}

\* C24 (as claimed): once a call of a connected CustomMCPClient has executed
\* the top-level code of the source, a later call of the same session does
\* not execute it again.
C24_SourceLoadedOnce ==
    (clients[1].kind = "custom" /\ SameSession /\ lastop.before.loads >= 1)
    => clients[1].loads = lastop.before.loads

-----------------------------------------------------------------------------
(* Further claims about call_tool, checked under SpecCall                  *)

\* C25: a tool function is invoked only for a name of the catalog; for a name
\* the catalog does not hold, call_tool answers that the tool was not found
\* and neither parses the arguments, nor loads the source, nor invokes a
\* function, even when the source defines a function of that name.
C25_OnlyCatalogNames ==
    cpc = "returned"
    => /\ cout.invoked => Found
       /\ ~Found => /\ cout.resp = ErrNotFound(cname)
                    /\ ~cout.loaded /\ ~cout.invoked
                    /\ cout.kwargs = EmptyMap

\* a name absent from the catalog, arguments that do not parse, and a source
\* that loads and defines the function
C25_Witness ==
    /\ cpc = "returned" /\ ~Found
    /\ cargs.form = "text" /\ JsonLoads(cargs.txt).exc # "none"
    /\ EndsWith(cpath, ".py")
    /\ cenv.load = "ok" /\ cenv.hasattr /\ cenv.run = "ok"
    /\ cout.resp.kind = "notfound"

-----------------------------------------------------------------------------
(* Further claims about extraction, checked under SpecExtract              *)

\* C26 (as claimed): after a successful connect_to_server no two descriptors
\* of the catalog have the same name, also when the source holds two
\* matching declarations of the same function name.
C26_UniqueNames ==
    (lastop.op = "connect_to_server" /\ lastop.res = "ok")
    => \A i, j \in DOMAIN clients[1].available_tools :
          clients[1].available_tools[i].name = clients[1].available_tools[j].name
          => i = j

-----------------------------------------------------------------------------
(* Further claims about the conversions of call_tool, under SpecCall       *)

\* C27 (as claimed): for a boolean-tagged parameter the function receives
\* false for every value that is neither a boolean nor one of the strings
\* true, yes, 1, y in any letter case: for a number, a list, None.
C27_OtherValuesFalse ==
    (cpc = "returned" /\ Found /\ cargs.form = "map" /\ cout.invoked)
    => \A i \in DOMAIN Called.params :
          LET n == Called.params[i].name
              v == cargs.m[n]
          IN  (/\ TypeTag(Called.params[i].type) = "boolean"
               /\ v.t # "bool"
               /\ ~(v.t = "str" /\ SaysTrue(v.s)))
              => cout.kwargs[n] = PyBool(FALSE)

\* the tag the substring tests give in the order float, int, bool, string
OrderedTag(param_type) ==
    IF Contains(AnnFloat, param_type) THEN "number"
    ELSE IF Contains(AnnInt, param_type) THEN "integer"
    ELSE IF Contains(AnnBool, param_type) THEN "boolean"
    ELSE "string"

\* the value a conversion under a tag gives, when it gives one
ConvertedAs(tag, v) ==
    CASE tag = "number" -> CoerceFloat(v)
      [] tag = "integer" -> CoerceInt(v)
      [] tag = "boolean" -> CoerceBool(v)
      [] OTHER -> Ok(PyStr(ToStr(v)))

\* C28: the tag of a parameter follows from its annotation by the substring
\* tests float, int, bool, else string in that order, and list_tools,
\* process_query and the conversion of call_tool all use that same tag.
C28_OneTagPerAnnotation ==
    (cpc = "returned" /\ Found)
    => \A i \in DOMAIN Called.params :
          LET n == Called.params[i].name
              listed == ListedTools(ctools)[FindTool(ctools, cname)].inputSchema[i].type
              sent == AnthropicTool(Called).properties[i].type
          IN  /\ listed = OrderedTag(Called.params[i].type)
              /\ sent = listed
              /\ (cargs.form = "map" /\ cout.invoked)
                 => Ok(cout.kwargs[n]) = ConvertedAs(listed, cargs.m[n])

\* a: float|int received "2.5" as 2.5 and b: int|bool received 2.5 as 2
C28_Witness ==
    /\ cpc = "returned" /\ Found /\ cargs.form = "map" /\ cout.invoked
    /\ Len(Called.params) = 2
    /\ Called.params[1].type = AnnFloatInt /\ Called.params[2].type = AnnIntBool
    /\ cargs.m[Called.params[1].name] = PyStr(<<"2", ".", "5">>)
    /\ cout.kwargs[Called.params[1].name] = PyFloat(25)
    /\ cargs.m[Called.params[2].name] = PyFloat(25)
    /\ cout.kwargs[Called.params[2].name] = PyInt(2)

\* a declaration the pattern matches, seen on its own
Matching(d) ==
    /\ d.deco = "tool" /\ d.async
    /\ d.ret = "word" /\ d.doc = "plain"
MatchingNames(decls) ==
    LET matching == SelectSeq(decls, Matching)
    IN  [j \in DOMAIN matching |-> matching[j].name]

C30_TextArguments ==
    (cpc = "returned" /\ Found /\ cargs.form = "text")
    => IF JsonLoads(cargs.txt).exc # "none"
       THEN /\ cout.resp = ErrParse(cargs.txt)
            /\ ~cout.loaded /\ ~cout.invoked /\ cout.kwargs = EmptyMap
       ELSE cout = call_tool(ctools, cpath, cname, JsonLoads(cargs.txt).v, cenv)

\* a call with the text {"a": "1", "b": "2"} that invoked the function with
\* converted arguments
C30_Witness ==
    /\ cpc = "returned" /\ Found /\ cargs.form = "text"
    /\ JsonLoads(cargs.txt).exc = "none" /\ JsonLoads(cargs.txt).v.form = "map"
    /\ Len(Called.params) = 2
    /\ cout.invoked /\ cout.kwargs = [k \in {"a", "b"} |->
                                        IF k = "a" THEN PyInt(1) ELSE PyInt(2)]

-----------------------------------------------------------------------------
(* Claims about the outcome of call_tool, checked under SpecCall           *)

\* the declared parameters are all supplied and all convert
Complete ==
    /\ Found /\ SuppliesMap
    /\ Omitted = <<>>
    /\ \A i \in DOMAIN Called.params : ~FailsCoercion(i)

\* the converted value of each declared parameter
CoercedArgs ==
    [n \in Declared |->
        LET i == CHOOSE j \in DOMAIN Called.params : Called.params[j].name = n
        IN  Coerce(Called.params[i].type, Supplied[n]).v]

\* the source is a Python file that loads and defines the function
Executable ==
    EndsWith(cpath, ".py") /\ cenv.load = "ok" /\ cenv.hasattr

FirstFailing ==
    CHOOSE i \in PresentIdx :
        /\ FailsCoercion(i)
        /\ \A j \in PresentIdx : j < i => ~FailsCoercion(j)

\* the response the precedence of the errors gives
ByPrecedence ==
    IF ~Found THEN ErrNotFound(cname)
    ELSE IF cargs.form = "text" /\ JsonLoads(cargs.txt).exc # "none"
    THEN ErrParse(cargs.txt)
    ELSE IF \E i \in PresentIdx : FailsCoercion(i)
    THEN ErrCoercion(Called.params[FirstFailing].name)
    ELSE IF Omitted # <<>> THEN ErrMissing(Omitted)
    ELSE IF ~EndsWith(cpath, ".py") THEN ErrUnsupported
    ELSE IF ~cenv.hasattr THEN ErrNoFunc(cname)
    ELSE IF cenv.run # "ok" THEN ErrExec
    ELSE Result(cenv.ret)

\* the arguments are a mapping, or a text that is a mapping or does not parse
MappingOrUnparsable ==
    \/ SuppliesMap
    \/ cargs.form = "text" /\ JsonLoads(cargs.txt).exc # "none"

\* C32 (as claimed): a call whose source loads reports the first error in
\* the order tool not in the catalog, text that does not parse, conversion
\* failure of the first declared parameter that fails, missing parameters,
\* source that is not a .py file, function absent, execution failure.
C32_ErrorPrecedence ==
    (cpc = "returned" /\ cenv.load = "ok" /\ (Found => MappingOrUnparsable))
    => cout.resp = ByPrecedence

\* C33 (as claimed): whenever the function is called, every argument has the
\* type of the tag of its parameter: an integer for an integer tag, a number
\* for a float tag, a boolean for a boolean tag, a string for a string tag;
\* a boolean supplied for an integer tag is not passed on as a boolean.
C33_CoercionTypeSound ==
    (cpc = "returned" /\ Found /\ cout.invoked)
    => \A i \in DOMAIN Called.params :
          ValidFor(TypeTag(Called.params[i].type), cout.kwargs[Called.params[i].name])

-----------------------------------------------------------------------------
(* Further claims about the handlers of the application, under SpecUI      *)

\* C34: process_query_async gives the chat input handler a text, the answer
\* or an error text, whatever failed inside process_query, and every run of
\* the handler appends exactly one entry, that text, to the chat history.
C34_OneEntryPerQuery ==
    [][(nops' = nops + 1 /\ lastop'.op = "chat_input")
       => /\ lastop'.res \in {"ok", "error"}
          /\ st'.chat_history = Append(st.chat_history, lastop'.res)]_vars

\* two queries were submitted, the second failed, and both are in the history
C34_Witness ==
    /\ lastop.op = "chat_input" /\ lastop.prevop = "chat_input"
    /\ lastop.res = "error"
    /\ Len(st.chat_history) = 2 /\ st.chat_history[2] = "error"

\* C35: in the session state connected is true exactly when a client is set,
\* and while connected is false the chat history and the tool list are empty.
C35_SessionStateConsistent ==
    /\ st.connected <=> st.client # 0
    /\ ~st.connected => st.chat_history = <<>> /\ st.available_tools = <<>>

\* a session that was connected with tools listed, answered a query and was
\* disconnected
C35_Witness ==
    /\ lastop.op \in {"disconnect_sidebar", "disconnect_footer"}
    /\ lastop.prevop = "chat_input"
    /\ ~st.connected /\ st.client = 0
    /\ lastop.before.available_tools # <<>>
    /\ st.chat_history = <<>>

-----------------------------------------------------------------------------
(* Claims about the source of the in-process client                        *)

\* C36 (as claimed), under SpecExtract: connect_to_server of CustomMCPClient
\* fails when the source cannot be read; it does not succeed with an empty
\* catalog.
C36_UnreadableSourceFails ==
    (clients[1].kind = "custom" /\ lastop.op = "connect_to_server"
     /\ ~lastop.file.readable)
    => lastop.res # "ok" /\ ~clients[1].connected

\* C37 (as claimed), under SpecClient: after a connect_to_server that
\* succeeded, a call of a catalog tool with valid arguments is not answered
\* with the unsupported-source error.
C37_AcceptedSourceExecutes ==
    (/\ clients[1].kind = "custom" /\ clients[1].connected
     /\ lastop.op = "call_tool"
     /\ FindTool(clients[1].available_tools, "add") # 0)
    => lastop.res # "unsupported"

=============================================================================
